---- MODULE Spec2Model ----
(***************************************************************************)
(* Model of desktop/src-tauri/src/commands.rs: four Tauri commands, each   *)
(* a typed proxy that sends one HTTP request to the dashboard backend and  *)
(* decodes the JSON response body with serde.                              *)
(*                                                                         *)
(* JSON is modelled at the level of parsed values (objects are functions   *)
(* from wire names to values), a body that is not JSON text at all is a    *)
(* separate case.  Floating point numbers are counted in tenths.  Wire     *)
(* integers of the model stay far below 2^31, so the upper ends of u32 and *)
(* u64 are never reached; the lower end (negative numbers) is.             *)
(***************************************************************************)
EXTENDS Integers, Sequences, FiniteSets, TLC

\* ------------------------------------------------------------------ bounds
MaxInv == 2
MaxAgents == 2

Inv == 1..MaxInv

\* --------------------------------------------------------------- constants
API_BASE == "http://localhost:3000/api"

Ops == {"get_health", "get_snapshot", "get_agents", "submit_task"}

\* ------------------------------------------------------------- JSON values
JStr(x) == [t |-> "string", s |-> x, n |-> 0, a |-> <<>>, o |-> <<>>]
JInt(x) == [t |-> "int", s |-> "", n |-> x, a |-> <<>>, o |-> <<>>]
JFloat(x) == [t |-> "float", s |-> "", n |-> x, a |-> <<>>, o |-> <<>>]
JNull == [t |-> "null", s |-> "", n |-> 0, a |-> <<>>, o |-> <<>>]
JArr(q) == [t |-> "array", s |-> "", n |-> 0, a |-> q, o |-> <<>>]
JObj(f) == [t |-> "object", s |-> "", n |-> 0, a |-> <<>>, o |-> f]

\* A response body: JSON text that parses to v, or bytes that are no JSON.
JsonBody(v) == [json |-> TRUE, v |-> v]
NotJson == [json |-> FALSE, v |-> JNull]

\* ------------------------------------------------- the serde struct shapes
\* One entry per struct field: the wire name (serde rename), the Rust field
\* and its type.
HealthResponse ==
    { [wire |-> "status", field |-> "status", ty |-> "String"],
      [wire |-> "health", field |-> "health", ty |-> "f64"] }

\* AgentSnapshot with the renames of the two counters exchanged.
AgentSnapshotSwapped ==
    { [wire |-> "agentId", field |-> "agent_id", ty |-> "String"],
      [wire |-> "teamType", field |-> "team_type", ty |-> "String"],
      [wire |-> "status", field |-> "status", ty |-> "String"],
      [wire |-> "currentTask", field |-> "current_task", ty |-> "Option<String>"],
      [wire |-> "tasksFailed", field |-> "tasks_completed", ty |-> "u32"],
      [wire |-> "tasksCompleted", field |-> "tasks_failed", ty |-> "u32"],
      [wire |-> "uptime", field |-> "uptime", ty |-> "u64"] }

AgentSnapshot ==
    { [wire |-> "agentId", field |-> "agent_id", ty |-> "String"],
      [wire |-> "teamType", field |-> "team_type", ty |-> "String"],
      [wire |-> "status", field |-> "status", ty |-> "String"],
      [wire |-> "currentTask", field |-> "current_task", ty |-> "Option<String>"],
      [wire |-> "tasksCompleted", field |-> "tasks_completed", ty |-> "u32"],
      [wire |-> "tasksFailed", field |-> "tasks_failed", ty |-> "u32"],
      [wire |-> "uptime", field |-> "uptime", ty |-> "u64"] }

DashboardSnapshot ==
    { [wire |-> "systemHealth", field |-> "system_health", ty |-> "f64"],
      [wire |-> "agents", field |-> "agents", ty |-> "Vec<AgentSnapshot>"],
      [wire |-> "activeWorkflows", field |-> "active_workflows", ty |-> "u32"],
      [wire |-> "totalTasksCompleted", field |-> "total_tasks_completed", ty |-> "u32"],
      [wire |-> "totalTasksFailed", field |-> "total_tasks_failed", ty |-> "u32"],
      [wire |-> "uptime", field |-> "uptime", ty |-> "u64"],
      [wire |-> "timestamp", field |-> "timestamp", ty |-> "String"] }

AgentsResponse ==
    { [wire |-> "agents", field |-> "agents", ty |-> "Vec<AgentSnapshot>"] }

SubmitTaskResponse ==
    { [wire |-> "taskId", field |-> "task_id", ty |-> "String"],
      [wire |-> "status", field |-> "status", ty |-> "String"] }

\* ---------------------------------------------------------- serde decoding
None == [some |-> FALSE, v |-> ""]
Some(x) == [some |-> TRUE, v |-> x]

\* Every field as if marked #[serde(default)].
MissingOkDefault(ty) == TRUE

\* A field that the body does not carry: serde's derive fills an Option
\* with None and fails with "missing field" for every other type.
MissingOk(ty) == ty = "Option<String>"

\* Whether a wire value of a scalar field deserializes into the type.
ScalarOk(ty, v) ==
    CASE ty = "String" -> v.t = "string"
      [] ty = "f64" -> v.t \in {"int", "float"}
      [] ty = "u32" -> v.t = "int" /\ v.n >= 0
      [] ty = "u64" -> v.t = "int" /\ v.n >= 0
      [] ty = "Option<String>" -> v.t \in {"null", "string"}
      [] OTHER -> FALSE

\* The Rust value a wire value deserializes to.
ScalarVal(ty, v) ==
    CASE ty = "String" -> v.s
      [] ty = "f64" -> [tenths |-> IF v.t = "int" THEN v.n * 10 ELSE v.n]
      [] ty = "u32" -> v.n
      [] ty = "u64" -> v.n
      [] ty = "Option<String>" -> IF v.t = "null" THEN None ELSE Some(v.s)
      [] OTHER -> None

Scalars(schema) == {e \in schema : e.ty # "Vec<AgentSnapshot>"}
Entry(schema, f) == CHOOSE e \in schema : e.field = f

\* A struct of scalar fields decodes iff the value is an object and every
\* field is there with a value of its type (or may be missing).
FlatOk(schema, v) ==
    /\ v.t = "object"
    /\ \A e \in Scalars(schema) :
          IF e.wire \in DOMAIN v.o THEN ScalarOk(e.ty, v.o[e.wire])
          ELSE MissingOk(e.ty)

FlatVal(schema, v) ==
    [f \in {e.field : e \in Scalars(schema)} |->
        LET e == Entry(schema, f)
        IN  IF e.wire \in DOMAIN v.o THEN ScalarVal(e.ty, v.o[e.wire])
            ELSE None]

\* Vec<AgentSnapshot>: an array whose every element decodes, in order.
VecOk(v) ==
    /\ v.t = "array"
    /\ \A k \in 1..Len(v.a) : FlatOk(AgentSnapshot, v.a[k])

VecVal(v) == [k \in 1..Len(v.a) |-> FlatVal(AgentSnapshot, v.a[k])]

HasVec(schema) == \E e \in schema : e.ty = "Vec<AgentSnapshot>"

\* serde_json::from_slice::<T>: Ok(value) or Err.
StructOk(schema, v) ==
    /\ FlatOk(schema, v)
    /\ HasVec(schema) => ("agents" \in DOMAIN v.o /\ VecOk(v.o["agents"]))

StructVal(schema, v) ==
    IF HasVec(schema)
    THEN FlatVal(schema, v) @@ [f \in {"agents"} |-> VecVal(v.o["agents"])]
    ELSE FlatVal(schema, v)

\* ------------------------------------------------------------ the commands
Method(o) == IF o = "submit_task" THEN "POST" ELSE "GET"

Path(o) ==
    CASE o = "get_health" -> "/health"
      [] o = "get_snapshot" -> "/snapshot"
      [] o = "get_agents" -> "/agents"
      [] o = "submit_task" -> "/tasks"

\* format!("{API_BASE}/...")
Url(o) == API_BASE \o Path(o)

\* The type handed to .json::<T>().
Schema(o) ==
    CASE o = "get_health" -> HealthResponse
      [] o = "get_snapshot" -> DashboardSnapshot
      [] o = "get_agents" -> AgentsResponse
      [] o = "submit_task" -> SubmitTaskResponse

NoBody == [json |-> FALSE, v |-> JNull]

\* A submission whose empty name is replaced by a default.
SubmitTaskRequestDefaulted(name, description) ==
    [name |-> IF name = "" THEN "untitled" ELSE name, description |-> description]

\* SubmitTaskRequest { name, description }
SubmitTaskRequest(name, description) ==
    [name |-> name, description |-> description]

\* RequestBuilder::json(&req): the struct serialized by its derive, one
\* member per field under the field's own name.
ToJson(req) ==
    JObj([f \in DOMAIN req |-> JStr(req[f])])

\* The request a command builds before send().
BuildRequest(o, arguments) ==
    [method |-> Method(o),
     url |-> Url(o),
     body |-> IF o = "submit_task"
              THEN JsonBody(ToJson(SubmitTaskRequest(arguments[1], arguments[2])))
              ELSE NoBody]

\* ----------------------------------------------------------------- results
NoResult == [tag |-> "None", val |-> <<>>, err |-> ""]
Ok(x) == [tag |-> "Ok", val |-> x, err |-> ""]
Err(e) == [tag |-> "Err", val |-> <<>>, err |-> e]

\* The texts of reqwest's errors (e.to_string()), by kind.
SendError == "error sending request"
BodyError == "request or response body error"
DecodeError == "error decoding response body"
StatusError == "HTTP status client or server error"

\* .unwrap() in place of map_err: the failure is a panic.
unwrap(e) == [tag |-> "Panic", val |-> <<>>, err |-> e]

\* .map_err(|e| e.to_string())
map_err(e) == Err(e)

\* The decoded response returned as it is, envelope included.
UnwrapNothing(o, x) == x

\* What the command returns from a decoded T: get_agents hands out the
\* inner vector (Ok(resp.agents)), the others the value itself.
Unwrap(o, x) == IF o = "get_agents" THEN x.agents ELSE x

\* As with error_for_status() before json().
StatusAcceptedIfSuccess(status) == status < 400

\* reqwest does not look at the status of a response unless asked to
\* (error_for_status); the commands never ask.
StatusAccepted(status) == TRUE

\* The response head has arrived: send() yields Ok(response).
HasHead(n) == n.kind \in {"head", "stalled", "aborted", "body"}

\* A client that keeps trying to connect and never reports the refusal.
SendResolvedKeepsTrying(n) == n.kind \in {"head", "stalled", "aborted", "body"}

\* A client with a timeout: a backend that stays silent ends the wait.
SendResolvedTimeout(n) == n.kind \in {"refused", "silent", "head", "stalled", "aborted", "body"}

\* send().await resolves when the connection failed or the response head
\* arrived; Client::new() sets no timeout, so nothing else resolves it.
SendResolved(n) == n.kind \in {"refused", "head", "stalled", "aborted", "body"}

\* json().await resolves when the body is complete or its read failed.
JsonResolved(n) == n.kind \in {"aborted", "body"}

\* .json::<T>().await.map_err(..) on a response whose body read ended.
JsonResult(o, n) ==
    IF n.kind # "body" THEN map_err(BodyError)
    ELSE IF ~n.body.json THEN map_err(DecodeError)
    ELSE IF ~StructOk(Schema(o), n.body.v) THEN map_err(DecodeError)
    ELSE Ok(Unwrap(o, StructVal(Schema(o), n.body.v)))

\* ------------------------------------------------ what the backend may send
GoodHealth == [status |-> JStr("ok"), health |-> JFloat(9)]

\* The agent record of the specification's example, and a busy one.
IdleAgent ==
    [agentId |-> JStr("a1"), teamType |-> JStr("qa"), status |-> JStr("idle"),
     currentTask |-> JNull, tasksCompleted |-> JInt(3), tasksFailed |-> JInt(0),
     uptime |-> JInt(120)]

BusyAgent ==
    [agentId |-> JStr("a2"), teamType |-> JStr("dev"), status |-> JStr("busy"),
     currentTask |-> JStr("build-x"), tasksCompleted |-> JInt(7),
     tasksFailed |-> JInt(1), uptime |-> JInt(45)]

GoodAgents == {IdleAgent, BusyAgent}

\* The JSON array of a sequence of agent records.
AgentArray(q) == JArr([k \in 1..Len(q) |-> JObj(q[k])])

GoodSnapshot(agents) ==
    [systemHealth |-> JFloat(8), agents |-> AgentArray(agents),
     activeWorkflows |-> JInt(2), totalTasksCompleted |-> JInt(10),
     totalTasksFailed |-> JInt(1), uptime |-> JInt(300),
     timestamp |-> JStr("2024-01-01T00:00:00Z")]

GoodSubmit == [taskId |-> JStr("t1"), status |-> JStr("queued")]

\* Values a backend may put where another type is expected.
Samples == {JStr("x"), JInt(4), JInt(-1), JFloat(5), JNull}

Drop(f, k) == [x \in DOMAIN f \ {k} |-> f[x]]
Put(f, k, v) == [x \in DOMAIN f \cup {k} |-> IF x = k THEN v ELSE f[x]]

\* An object, and the object with one member dropped, replaced or added.
Perturb(f) ==
    {f} \cup {Drop(f, k) : k \in DOMAIN f}
        \cup {Put(f, k, v) : k \in DOMAIN f \cup {"extra"}, v \in Samples}

RECURSIVE SeqsUpTo(_, _)
SeqsUpTo(S, n) ==
    IF n = 0 THEN {<<>>}
    ELSE LET shorter == SeqsUpTo(S, n - 1)
         IN  shorter \cup {Append(q, x) : q \in {r \in shorter : Len(r) = n - 1}, x \in S}

\* Arrays of good agent records, and those with one record perturbed.
GoodArrays == SeqsUpTo(GoodAgents, MaxAgents)

Arrays ==
    GoodArrays \cup
    {[q EXCEPT ![k] = p] : q \in GoodArrays \ {<<>>}, k \in 1..MaxAgents,
                            p \in UNION {Perturb(g) : g \in GoodAgents}}

Shapeless == {NotJson, JsonBody(JNull), JsonBody(JArr(<<>>)), JsonBody(JStr("ok"))}

\* The bodies the decoding is explored on, per command.
BodiesOf(o) ==
    Shapeless \cup
    CASE o = "get_health" -> {JsonBody(JObj(f)) : f \in Perturb(GoodHealth)}
      [] o = "get_snapshot" ->
            {JsonBody(JObj(f)) : f \in Perturb(GoodSnapshot(<<IdleAgent>>))}
            \cup {JsonBody(JObj(GoodSnapshot(q))) : q \in Arrays}
      [] o = "get_agents" ->
            {JsonBody(JObj(f)) : f \in Perturb([agents |-> AgentArray(<<BusyAgent>>)])}
            \cup {JsonBody(JObj([agents |-> AgentArray(q)])) : q \in Arrays}
      [] o = "submit_task" -> {JsonBody(JObj(f)) : f \in Perturb(GoodSubmit)}

Bodies == [o \in Ops \cup {"none"} |-> IF o \in Ops THEN BodiesOf(o) ELSE {}]

Statuses == {200, 404, 500}

Strings == {"", "build-x", "desc"}

\* The arguments a command may be invoked with.
Arguments(o) ==
    IF o = "submit_task" THEN {<<n, d>> : n \in Strings, d \in Strings}
    ELSE {<<>>}

\* A few bodies, statuses and arguments for the runs with several
\* invocations in flight.
FewBodiesOf(o) ==
    {NotJson} \cup
    CASE o = "get_health" -> {JsonBody(JObj(GoodHealth))}
      [] o = "get_snapshot" -> {JsonBody(JObj(GoodSnapshot(<<IdleAgent>>)))}
      [] o = "get_agents" -> {JsonBody(JObj([agents |-> AgentArray(<<IdleAgent>>)]))}
      [] o = "submit_task" -> {JsonBody(JObj(GoodSubmit))}

FewBodies == [o \in Ops \cup {"none"} |-> IF o \in Ops THEN FewBodiesOf(o) ELSE {}]

FewStatuses == {200}

FewArguments(o) ==
    IF o = "submit_task" THEN {<<"", "">>, <<"build-x", "desc">>}
    ELSE {<<>>}

\* ------------------------------------------------------------------- state
VARIABLES
    pc,        \* per invocation: "idle", "send", "json", "done"
    op,        \* the command invoked
    args,      \* its arguments
    sent,      \* the requests the invocation's client has put on the wire
    net,       \* the backend's side of the invocation's connection
    decoded,   \* whether the invocation called json::<T>()
    result     \* what the invocation returned

vars == <<pc, op, args, sent, net, decoded, result>>

NoNet == [kind |-> "none", status |-> 0, body |-> NoBody]

Init ==
    /\ pc = [i \in Inv |-> "idle"]
    /\ op = [i \in Inv |-> "none"]
    /\ args = [i \in Inv |-> <<>>]
    /\ sent = [i \in Inv |-> <<>>]
    /\ net = [i \in Inv |-> NoNet]
    /\ decoded = [i \in Inv |-> FALSE]
    /\ result = [i \in Inv |-> NoResult]

\* The value kept in a slot shared by the invocations of the same command
\* that are in flight.
ReturnShared(i, r) ==
    [j \in Inv |-> IF j = i \/ (op[j] = op[i] /\ pc[j] \in {"send", "json"})
                   THEN r ELSE result[j]]

\* Returning from the command: the value goes to this invocation's caller.
Return(i, r) == [result EXCEPT ![i] = r]

\* The UI invokes command o: a new client, the request built and sent, and
\* the command suspended in send().await.
Invoke(i, o, arguments) ==
    /\ pc[i] = "idle"
    /\ pc' = [pc EXCEPT ![i] = "send"]
    /\ op' = [op EXCEPT ![i] = o]
    /\ args' = [args EXCEPT ![i] = arguments]
    /\ sent' = [sent EXCEPT ![i] = Append(@, BuildRequest(o, arguments))]
    /\ net' = [net EXCEPT ![i] = [NoNet EXCEPT !.kind = "pending"]]
    /\ UNCHANGED <<decoded, result>>

\* The backend cannot be reached (connection refused).
Refuse(i) ==
    /\ net[i].kind = "pending"
    /\ net' = [net EXCEPT ![i].kind = "refused"]
    /\ UNCHANGED <<pc, op, args, sent, decoded, result>>

\* The backend takes the request and never answers.
Silence(i) ==
    /\ net[i].kind = "pending"
    /\ net' = [net EXCEPT ![i].kind = "silent"]
    /\ UNCHANGED <<pc, op, args, sent, decoded, result>>

\* The backend answers with a status line and headers.
Respond(i, status) ==
    /\ net[i].kind = "pending"
    /\ net' = [net EXCEPT ![i].kind = "head", ![i].status = status]
    /\ UNCHANGED <<pc, op, args, sent, decoded, result>>

\* The backend never finishes the body.
Stall(i) ==
    /\ net[i].kind = "head"
    /\ net' = [net EXCEPT ![i].kind = "stalled"]
    /\ UNCHANGED <<pc, op, args, sent, decoded, result>>

\* The connection breaks while the body is on its way.
Abort(i) ==
    /\ net[i].kind = "head"
    /\ net' = [net EXCEPT ![i].kind = "aborted"]
    /\ UNCHANGED <<pc, op, args, sent, decoded, result>>

\* The backend completes the body.
Body(i, b) ==
    /\ net[i].kind = "head"
    /\ net' = [net EXCEPT ![i].kind = "body", ![i].body = b]
    /\ UNCHANGED <<pc, op, args, sent, decoded, result>>

\* send() in a retry loop: a refused connection sends the request again.
SendResumeRetry(i) ==
    /\ pc[i] = "send"
    /\ SendResolved(net[i])
    /\ IF net[i].kind = "refused"
       THEN /\ sent' = [sent EXCEPT ![i] = Append(@, BuildRequest(op[i], args[i]))]
            /\ net' = [net EXCEPT ![i].kind = "pending"]
            /\ UNCHANGED <<pc, decoded, result>>
       ELSE /\ pc' = [pc EXCEPT ![i] = "json"]
            /\ decoded' = [decoded EXCEPT ![i] = TRUE]
            /\ UNCHANGED <<sent, net, result>>
    /\ UNCHANGED <<op, args>>

\* send().await resolves: map_err(..)? returns the error, or the response
\* goes on to json::<T>().
SendResume(i) ==
    /\ pc[i] = "send"
    /\ SendResolved(net[i])
    /\ IF ~HasHead(net[i])
       THEN \* Err(e): no response came
            /\ pc' = [pc EXCEPT ![i] = "done"]
            /\ result' = Return(i, map_err(SendError))
            /\ UNCHANGED decoded
       ELSE IF ~StatusAccepted(net[i].status)
       THEN \* a client that rejects the status (none of the commands does)
            /\ pc' = [pc EXCEPT ![i] = "done"]
            /\ result' = Return(i, map_err(StatusError))
            /\ UNCHANGED decoded
       ELSE \* Ok(response): on to json::<T>()
            /\ pc' = [pc EXCEPT ![i] = "json"]
            /\ decoded' = [decoded EXCEPT ![i] = TRUE]
            /\ UNCHANGED result
    /\ UNCHANGED <<op, args, sent, net>>

\* json::<T>().await resolves and the command returns.
JsonResume(i) ==
    /\ pc[i] = "json"
    /\ JsonResolved(net[i])
    /\ pc' = [pc EXCEPT ![i] = "done"]
    /\ result' = Return(i, JsonResult(op[i], net[i]))
    /\ UNCHANGED <<op, args, sent, net, decoded>>

\* Several invocations in flight.
Next ==
    \E i \in Inv :
        \/ \E o \in Ops : \E a \in FewArguments(o) : Invoke(i, o, a)
        \/ Refuse(i)
        \/ Silence(i)
        \/ \E st \in FewStatuses : Respond(i, st)
        \/ Stall(i)
        \/ Abort(i)
        \/ \E b \in FewBodies[op[i]] : Body(i, b)
        \/ SendResume(i)
        \/ JsonResume(i)

Spec == Init /\ [][Next]_vars

\* The runtime polls a command whose future has resolved.
Fairness == \A i \in Inv : WF_vars(SendResume(i)) /\ WF_vars(JsonResume(i))

\* Several invocations in flight, each with one choice of arguments.
FairNext ==
    \E i \in Inv :
        \/ \E o \in Ops :
              Invoke(i, o, IF o = "submit_task" THEN <<"build-x", "desc">> ELSE <<>>)
        \/ Refuse(i)
        \/ Silence(i)
        \/ \E st \in FewStatuses : Respond(i, st)
        \/ Stall(i)
        \/ Abort(i)
        \/ \E b \in FewBodies[op[i]] : Body(i, b)
        \/ SendResume(i)
        \/ JsonResume(i)

FairSpec == Init /\ [][FairNext]_vars /\ Fairness

\* One invocation, every body, status and argument of the sets above.
DecodeNext ==
    \/ \E o \in Ops : \E a \in Arguments(o) : Invoke(1, o, a)
    \/ Refuse(1)
    \/ Silence(1)
    \/ \E st \in Statuses : Respond(1, st)
    \/ Stall(1)
    \/ Abort(1)
    \/ \E b \in Bodies[op[1]] : Body(1, b)
    \/ SendResume(1)
    \/ JsonResume(1)

DecodeSpec == Init /\ [][DecodeNext]_vars

\* ================================================================ claims
Done(i) == pc[i] = "done"

HealthFields == {"status", "health"}
AgentFields ==
    {"agent_id", "team_type", "status", "current_task", "tasks_completed",
     "tasks_failed", "uptime"}
DashboardFields ==
    {"system_health", "agents", "active_workflows", "total_tasks_completed",
     "total_tasks_failed", "uptime", "timestamp"}
SubmitFields == {"task_id", "status"}

AllAgentsPopulated(q) == \A k \in 1..Len(q) : DOMAIN q[k] = AgentFields

FullyPopulated(o, x) ==
    CASE o = "get_health" -> DOMAIN x = HealthFields
      [] o = "get_snapshot" -> DOMAIN x = DashboardFields /\ AllAgentsPopulated(x.agents)
      [] o = "get_agents" -> AllAgentsPopulated(x)
      [] o = "submit_task" -> DOMAIN x = SubmitFields

\* C2: a completed invocation holds either a fully populated value or an
\* error string; a transport failure and a failure to decode the body both
\* end in the error string, and nothing else ever comes out.
C2_ValueOrErrorString ==
    \A i \in Inv :
        IF ~Done(i) THEN result[i].tag = "None"
        ELSE /\ result[i].tag \in {"Ok", "Err"}
             /\ result[i].tag = "Ok" => FullyPopulated(op[i], result[i].val)
             /\ result[i].tag = "Err" => result[i].err \in {SendError, BodyError, DecodeError}
             /\ net[i].kind \in {"refused", "aborted"} => result[i].tag = "Err"
             /\ (net[i].kind = "body" /\ ~net[i].body.json) => result[i].tag = "Err"
             /\ (net[i].kind = "body" /\ net[i].body.json
                    /\ ~StructOk(Schema(op[i]), net[i].body.v)) => result[i].tag = "Err"

\* A snapshot response whose body lacks a member ended in an error string.
C2_Witness ==
    /\ Done(1) /\ op[1] = "get_snapshot" /\ net[1].kind = "body"
    /\ net[1].body.json /\ net[1].body.v.t = "object"
    /\ "uptime" \notin DOMAIN net[1].body.v.o
    /\ result[1].tag = "Err"

\* ---- C5
\* C5: submit_task sends its request for every pair of arguments, the
\* empty strings included, and the body is the object of exactly the two
\* members name and description holding the arguments unchanged.
C5_ArgumentsForwarded ==
    \A i \in Inv :
        (pc[i] # "idle" /\ op[i] = "submit_task") =>
            /\ Len(sent[i]) = 1
            /\ sent[i][1].body.json
            /\ sent[i][1].body.v.t = "object"
            /\ DOMAIN sent[i][1].body.v.o = {"name", "description"}
            /\ sent[i][1].body.v.o["name"] = JStr(args[i][1])
            /\ sent[i][1].body.v.o["description"] = JStr(args[i][2])

\* A submission with an empty name was sent and answered.
C5_Witness ==
    /\ Done(1) /\ op[1] = "submit_task" /\ args[1] = <<"", "desc">>
    /\ result[1].tag = "Ok" /\ Len(sent[1]) = 1

\* ---- C3
\* The wire shapes of the backend's interface.
IsString(v) == v.t = "string"
IsNumber(v) == v.t \in {"int", "float"}
IsCounter(v) == v.t = "int" /\ v.n >= 0
IsStringOrNull(v) == v.t \in {"string", "null"}

Has(v, k, P(_)) == v.t = "object" /\ k \in DOMAIN v.o /\ P(v.o[k])

WireAgentState(v) ==
    /\ Has(v, "agentId", IsString) /\ Has(v, "teamType", IsString)
    /\ Has(v, "status", IsString) /\ Has(v, "currentTask", IsStringOrNull)
    /\ Has(v, "tasksCompleted", IsCounter) /\ Has(v, "tasksFailed", IsCounter)
    /\ Has(v, "uptime", IsCounter)

IsAgentList(v) == v.t = "array" /\ \A k \in 1..Len(v.a) : WireAgentState(v.a[k])

WellFormed(o, b) ==
    /\ b.json
    /\ CASE o = "get_health" -> Has(b.v, "status", IsString) /\ Has(b.v, "health", IsNumber)
         [] o = "get_snapshot" ->
               /\ Has(b.v, "systemHealth", IsNumber) /\ Has(b.v, "agents", IsAgentList)
               /\ Has(b.v, "activeWorkflows", IsCounter)
               /\ Has(b.v, "totalTasksCompleted", IsCounter)
               /\ Has(b.v, "totalTasksFailed", IsCounter)
               /\ Has(b.v, "uptime", IsCounter) /\ Has(b.v, "timestamp", IsString)
         [] o = "get_agents" -> Has(b.v, "agents", IsAgentList)
         [] o = "submit_task" -> Has(b.v, "taskId", IsString) /\ Has(b.v, "status", IsString)
         [] OTHER -> FALSE

\* A wire number, in tenths.
Tenths(w) == IF w.t = "int" THEN 10 * w.n ELSE w.n

\* A returned agent against the members of its wire record.
SameAgent(x, w) ==
    /\ x.agent_id = w.agentId.s
    /\ x.team_type = w.teamType.s
    /\ x.status = w.status.s
    /\ x.current_task.some = (w.currentTask.t # "null")
    /\ x.current_task.some => x.current_task.v = w.currentTask.s
    /\ x.tasks_completed = w.tasksCompleted.n
    /\ x.tasks_failed = w.tasksFailed.n
    /\ x.uptime = w.uptime.n

SameAgents(xs, ws) ==
    /\ Len(xs) = Len(ws)
    /\ \A k \in 1..Len(ws) : SameAgent(xs[k], ws[k].o)

SameValue(o, x, w) ==
    CASE o = "get_health" ->
            x.status = w.status.s /\ x.health.tenths = Tenths(w.health)
      [] o = "get_snapshot" ->
            /\ x.system_health.tenths = Tenths(w.systemHealth)
            /\ SameAgents(x.agents, w.agents.a)
            /\ x.active_workflows = w.activeWorkflows.n
            /\ x.total_tasks_completed = w.totalTasksCompleted.n
            /\ x.total_tasks_failed = w.totalTasksFailed.n
            /\ x.uptime = w.uptime.n
            /\ x.timestamp = w.timestamp.s
      [] o = "get_agents" -> SameAgents(x, w.agents.a)
      [] o = "submit_task" -> x.task_id = w.taskId.s /\ x.status = w.status.s

\* C3: on a well-formed body of the declared shape the command returns a
\* value whose every field equals the wire member of the corresponding
\* camelCase name; a null currentTask comes out as the absent optional.
C3_FieldsEqualWire ==
    \A i \in Inv :
        (Done(i) /\ net[i].kind = "body" /\ WellFormed(op[i], net[i].body)) =>
            /\ result[i].tag = "Ok"
            /\ SameValue(op[i], result[i].val, net[i].body.v.o)

\* A snapshot with an idle agent (currentTask null) and a busy one.
C3_Witness ==
    /\ Done(1) /\ op[1] = "get_snapshot" /\ net[1].kind = "body"
    /\ WellFormed(op[1], net[1].body)
    /\ Len(result[1].val.agents) = 2
    /\ ~result[1].val.agents[1].current_task.some
    /\ result[1].val.agents[2].current_task = Some("build-x")
    /\ result[1].val.agents[2].tasks_completed = 7
    /\ result[1].val.agents[2].tasks_failed = 1

\* ---- C4
IsEnvelope(b) == b.json /\ Has(b.v, "agents", IsAgentList)

\* C4: get_agents on an envelope {agents: [...]} returns the inner
\* sequence: as long, in the same order, each element equal to its wire
\* record, and no envelope around it.
C4_InnerSequence ==
    \A i \in Inv :
        (Done(i) /\ op[i] = "get_agents" /\ net[i].kind = "body" /\ IsEnvelope(net[i].body)) =>
            /\ result[i].tag = "Ok"
            /\ DOMAIN result[i].val = DOMAIN net[i].body.v.o["agents"].a
            /\ \A k \in DOMAIN result[i].val :
                  SameAgent(result[i].val[k], net[i].body.v.o["agents"].a[k].o)

\* Two different agents came back in the order of the wire.
C4_Witness ==
    /\ Done(1) /\ op[1] = "get_agents" /\ net[1].kind = "body"
    /\ IsEnvelope(net[1].body)
    /\ result[1].tag = "Ok" /\ Len(result[1].val) = 2
    /\ result[1].val[1].agent_id = "a2" /\ result[1].val[2].agent_id = "a1"

\* ---- C6
RequiredOfAgent ==
    {"agentId", "teamType", "status", "tasksCompleted", "tasksFailed", "uptime"}

Required(o) ==
    CASE o = "get_health" -> {"status", "health"}
      [] o = "get_snapshot" ->
            {"systemHealth", "agents", "activeWorkflows", "totalTasksCompleted",
             "totalTasksFailed", "uptime", "timestamp"}
      [] o = "get_agents" -> {"agents"}
      [] o = "submit_task" -> {"taskId", "status"}
      [] OTHER -> {}

\* The body is an object that lacks a required member, at the top or in one
\* of the records of its agents array.
LacksRequired(o, b) ==
    /\ b.json /\ b.v.t = "object"
    /\ \/ \E k \in Required(o) : k \notin DOMAIN b.v.o
       \/ /\ "agents" \in Required(o) /\ "agents" \in DOMAIN b.v.o
          /\ b.v.o["agents"].t = "array"
          /\ \E n \in 1..Len(b.v.o["agents"].a) :
                LET r == b.v.o["agents"].a[n]
                IN  r.t = "object" /\ \E k \in RequiredOfAgent : k \notin DOMAIN r.o

\* C6: a body that lacks a non-optional member of the expected shape ends
\* in a decode error, never in a value with the member filled in.
C6_MissingFieldIsError ==
    \A i \in Inv :
        (Done(i) /\ net[i].kind = "body" /\ LacksRequired(op[i], net[i].body)) =>
            result[i] = Err(DecodeError)

\* A snapshot without timestamp was answered with the decode error.
C6_Witness ==
    /\ Done(1) /\ op[1] = "get_snapshot" /\ net[1].kind = "body" /\ net[1].body.json
    /\ DOMAIN net[1].body.v.o = Required("get_snapshot") \ {"timestamp"}
    /\ result[1] = Err(DecodeError)

\* ---- C10
\* C10: once the body of a response is in, the outcome is that of decoding
\* the body, whatever the status of the response: a value iff the body
\* decodes, the decode error otherwise, and no error of the status.
C10_StatusIgnored ==
    \A i \in Inv :
        (Done(i) /\ net[i].kind = "body") =>
            /\ result[i].tag = "Ok" <=>
                  (net[i].body.json /\ StructOk(Schema(op[i]), net[i].body.v))
            /\ WellFormed(op[i], net[i].body) => result[i].tag = "Ok"
            /\ result[i].tag # "Ok" => result[i] = Err(DecodeError)

\* A response of status 500 whose body has the shape gave a value.
C10_Witness ==
    /\ Done(1) /\ net[1].kind = "body" /\ net[1].status = 500
    /\ WellFormed(op[1], net[1].body) /\ result[1].tag = "Ok"

\* ---- C7
\* C7: when the backend cannot be reached the invocation ends, in an error
\* string, and it never got to decoding a body.
C7_UnreachableEndsInError ==
    /\ \A i \in Inv :
          [](net[i].kind = "refused" => <>(Done(i) /\ result[i] = Err(SendError)))
    /\ [](\A i \in Inv :
            net[i].kind = "refused" =>
                ~decoded[i] /\ pc[i] \in {"send", "done"} /\ result[i].tag \in {"None", "Err"})

\* An invocation whose connection was refused has returned its error.
C7_Witness ==
    \E i \in Inv :
        net[i].kind = "refused" /\ Done(i) /\ result[i] = Err(SendError) /\ ~decoded[i]

\* ---- C8
\* C8 as stated: no invocation blocks for ever, every one in flight ends.
C8_NeverBlocks ==
    \A i \in Inv : [](pc[i] \in {"send", "json"} => <>Done(i))

\* C8 as the code has it: an invocation ends once its connection is
\* refused, its body is complete or the read of its body fails; with a
\* backend that took the request and stays silent, or never finishes the
\* body, it never ends, there being no timeout.
C8_EndsUnlessBackendSilent ==
    /\ \A i \in Inv :
          [](net[i].kind \in {"refused", "aborted", "body"} => <>Done(i))
    /\ [](\A i \in Inv : net[i].kind \in {"silent", "stalled"} => ~Done(i))

\* One invocation waits on a silent backend, in send(), another on a body
\* that never ends, in json().
C8_Witness ==
    \E i, j \in Inv :
        /\ net[i].kind = "silent" /\ pc[i] = "send"
        /\ net[j].kind = "stalled" /\ pc[j] = "json"

\* ---- C9
Local(i) == <<pc[i], op[i], args[i], sent[i], net[i], decoded[i], result[i]>>

\* What the invocation's own response makes of its command.
OwnOutcome(i) ==
    IF net[i].kind = "refused" THEN Err(SendError) ELSE JsonResult(op[i], net[i])

\* C9: a step of one invocation leaves the state of every other as it was,
\* and what an invocation returns is what its own command makes of the
\* response to its own request, whatever the others did in between.
C9_Independent ==
    /\ [][\A i, j \in Inv :
            (i # j /\ Local(i)' # Local(i)) => Local(j)' = Local(j)]_vars
    /\ [](\A i \in Inv : Done(i) => result[i] = OwnOutcome(i))

\* Two invocations of the same command ended differently, each on its own
\* response.
C9_Witness ==
    \E i, j \in Inv :
        /\ Done(i) /\ Done(j) /\ op[i] = op[j] /\ op[i] = "get_health"
        /\ result[i].tag = "Ok" /\ result[j] = Err(DecodeError)

====
